---- MODULE Spec2Model ----
(***************************************************************************)
(* Model of be::concur::ConcurApp (src/src/concur_app.cpp): the            *)
(* constructor, which runs the command line through cli::Processor and     *)
(* fills inputs_, output_sizes_, output_path_ and status_, and operator()  *)
(* which examines the input paths and the output path.                     *)
(*                                                                         *)
(* An F32 value is kept as the ratio <<n, d>> (d > 0) that the option text *)
(* denotes ("2/16" is <<2, 16>>, "0" is <<0, 1>>).                         *)
(***************************************************************************)
EXTENDS Integers, Sequences, FiniteSets, TLC

\* SpecSizes: the number of size declarations (-s and the preset flags) and of
\* hotspot options (-x, -y) of one command line.
MaxDecls == 3

MaxHotspotOpts == 3

\* SpecSizes: the number of those options taken together.
MaxSizeOpts == 6

\* Spec: the number of size declarations and hotspot options, taken together,
\* of a command line that also carries inputs, an output path and the help and
\* version options.
RunOpts == 2

\* Bounds given to parse_bounded_numeric_string<U16> by the -s handler.
MinSize == 1
MaxSize == 256

----------------------------------------------------------------------------
\* Values the command line can carry.

InputPaths == <<"a.png", "b.png">>

OutputPaths == {"out/cursor.cur"}

\* -x arguments: 2/16, 3/32, and 5/4 which is outside [0, 1].
HotspotXArgs == {<<2, 16>>, <<3, 32>>, <<5, 4>>}

\* -y arguments: 2/16, and -1/4 which is outside [0, 1].
HotspotYArgs == {<<2, 16>>, <<-1, 4>>}

\* -s arguments.
SizeArgs == {0, 16, 256, 257}

\* What a default-constructed glm::vec2 component can hold: the member is
\* never assigned before its first read, so its value is whatever the build
\* leaves there (zero with a zero-initialising constructor).
IndeterminateF32 == {<<0, 1>>, <<5, 4>>}

\* What fs::exists and fs::is_regular_file can answer about a path: it does
\* not exist, it is a regular file, it is something else (a directory).
Kinds == {"absent", "file", "dir"}

InUnit(v) == v[1] >= 0 /\ v[1] <= v[2]

IsZero(h) == h.x[1] = 0 /\ h.y[1] = 0

----------------------------------------------------------------------------
VARIABLES
    pc,             \* "parse", "constructed", "inputs", "output", "done"
    hotspot,        \* the constructor's local glm::vec2 hotspot
    show_help,
    show_version,
    inputs_,        \* std::map<Path, input_type>
    output_sizes_,  \* std::map<U16, glm::vec2>
    output_path_,   \* "" when empty
    status_,
    declared,       \* history: edge length -> the hotspots current at its
                    \* declarations, in order
    ctor_status,    \* history: status_ when the constructor returned, -1
                    \* before
    left,           \* size declarations and hotspot options still to come
    todo,           \* operator(): the inputs the loop has still to visit
    fs,             \* what operator() has seen of, or done to, each path:
                    \* "unknown" until then, a kind, "error" when the query
                    \* threw, "created" for a directory it made
    log,            \* diagnostics emitted
    out_file,       \* the container operator() has written
    ret             \* operator()'s return value, -1 before it returns

vars == <<pc, hotspot, show_help, show_version, inputs_, output_sizes_,
          output_path_, status_, declared, ctor_status, left, todo, fs, log,
          out_file, ret>>

ctor == <<hotspot, show_help, show_version, inputs_, output_sizes_,
          output_path_, declared, left>>

run == <<todo, fs, out_file, ret>>

Parent(p) == "out"

AllPaths == {InputPaths[i] : i \in 1..Len(InputPaths)} \cup OutputPaths
               \cup {Parent(p) : p \in OutputPaths}

NoFile == [type |-> "none", frames |-> {}]

Init ==
    /\ pc = "parse"
    /\ hotspot \in [x : IndeterminateF32, y : IndeterminateF32]
    /\ show_help = FALSE
    /\ show_version = FALSE
    /\ inputs_ = <<>>
    /\ output_sizes_ = <<>>
    /\ output_path_ = ""
    /\ status_ = 0
    /\ declared = <<>>
    /\ ctor_status = -1
    /\ left = [decls |-> RunOpts, hots |-> RunOpts, total |-> RunOpts]
    /\ todo = <<>>
    /\ fs = [p \in AllPaths |-> "unknown"]
    /\ log = {}
    /\ out_file = NoFile
    /\ ret = -1

----------------------------------------------------------------------------
Range(seq) == {seq[i] : i \in 1..Len(seq)}

\* Store as std::map::insert would do it: an existing entry is kept.
StoreIfAbsent(m, k, v) ==
    [j \in DOMAIN m \cup {k} |-> IF j \in DOMAIN m THEN m[j] ELSE v]

\* std::map::operator[] followed by assignment.
Store(m, k, v) == [j \in DOMAIN m \cup {k} |-> IF j = k THEN v ELSE m[j]]

RECURSIVE StoreAll(_, _, _)
StoreAll(m, ks, v) ==
    IF ks = <<>> THEN m ELSE StoreAll(Store(m, Head(ks), v), Tail(ks), v)

\* A catch block of the constructor: status_ = 2 and an error is logged.
ParseCatch(what) ==
    /\ status_' = 2
    /\ ctor_status' = 2
    /\ log' = log \cup {[msg |-> what, arg |-> "command line"]}
    /\ pc' = "constructed"

AddInput(path, type) ==
    /\ pc = "parse"
    /\ inputs_' = Store(inputs_, path, type)
    /\ UNCHANGED <<pc, hotspot, show_help, show_version, output_sizes_,
                   output_path_, status_, ctor_status, declared, left, log>>
    /\ UNCHANGED run

OptInput == \E i \in 1..Len(InputPaths) : AddInput(InputPaths[i], "automatic")

OptPng == \E i \in 1..Len(InputPaths) : AddInput(InputPaths[i], "png")

OptBmp == \E i \in 1..Len(InputPaths) : AddInput(InputPaths[i], "bitmap")

\* OptHotspotX as it would be if output_sizes_ held references to the local
\* hotspot: the new x shows in every size already declared.
OptHotspotXShared ==
    /\ pc = "parse"
    /\ left.hots > 0 /\ left.total > 0
    /\ left' = [left EXCEPT !.hots = @ - 1, !.total = @ - 1]
    /\ \E v \in HotspotXArgs :
         IF InUnit(v)
         THEN /\ hotspot' = [hotspot EXCEPT !.x = v]
              /\ output_sizes_' = [s \in DOMAIN output_sizes_ |->
                                     [output_sizes_[s] EXCEPT !.x = v]]
              /\ UNCHANGED <<pc, status_, ctor_status, log>>
         ELSE /\ ParseCatch("Error while parsing command line!")
              /\ UNCHANGED <<hotspot, output_sizes_>>
    /\ UNCHANGED <<show_help, show_version, inputs_, output_path_, declared>>
    /\ UNCHANGED run

\* parse_bounded_numeric_string<F32>(str, 0, 1) either yields a value in
\* [0, 1] or throws; the exception leaves the constructor through a catch.
OptHotspotX ==
    /\ pc = "parse"
    /\ left.hots > 0 /\ left.total > 0
    /\ left' = [left EXCEPT !.hots = @ - 1, !.total = @ - 1]
    /\ \E v \in HotspotXArgs :
         IF InUnit(v)
         THEN /\ hotspot' = [hotspot EXCEPT !.x = v]
              /\ UNCHANGED <<pc, status_, ctor_status, log>>
         ELSE /\ ParseCatch("Error while parsing command line!")
              /\ UNCHANGED hotspot
    /\ UNCHANGED <<show_help, show_version, inputs_, output_sizes_,
                   output_path_, declared>>
    /\ UNCHANGED run

OptHotspotY ==
    /\ pc = "parse"
    /\ left.hots > 0 /\ left.total > 0
    /\ left' = [left EXCEPT !.hots = @ - 1, !.total = @ - 1]
    /\ \E v \in HotspotYArgs :
         IF InUnit(v)
         THEN /\ hotspot' = [hotspot EXCEPT !.y = v]
              /\ UNCHANGED <<pc, status_, ctor_status, log>>
         ELSE /\ ParseCatch("Error while parsing command line!")
              /\ UNCHANGED hotspot
    /\ UNCHANGED <<show_help, show_version, inputs_, output_sizes_,
                   output_path_, declared>>
    /\ UNCHANGED run

\* The body shared by the size handlers: output_sizes_[size] = hotspot for
\* each size of the option, in order.
Declare(sizes) ==
    /\ pc = "parse"
    /\ left.decls > 0 /\ left.total > 0
    /\ left' = [left EXCEPT !.decls = @ - 1, !.total = @ - 1]
    /\ output_sizes_' = StoreAll(output_sizes_, sizes, hotspot)
    /\ declared' = [s \in DOMAIN declared \cup Range(sizes) |->
                      IF s \notin Range(sizes) THEN declared[s]
                      ELSE IF s \in DOMAIN declared
                           THEN Append(declared[s], hotspot)
                           ELSE <<hotspot>>]
    /\ UNCHANGED <<pc, hotspot, show_help, show_version, inputs_,
                   output_path_, status_, ctor_status, log>>
    /\ UNCHANGED run

OptSize ==
    \E n \in SizeArgs :
        IF n >= MinSize /\ n <= MaxSize
        THEN Declare(<<n>>)
        ELSE /\ pc = "parse"
             /\ left.decls > 0 /\ left.total > 0
             /\ left' = [left EXCEPT !.decls = @ - 1, !.total = @ - 1]
             /\ ParseCatch("Error while parsing command line!")
             /\ UNCHANGED <<hotspot, show_help, show_version, inputs_,
                            output_sizes_, output_path_, declared>>
             /\ UNCHANGED run

FlagSmall == Declare(<<16>>)

FlagMedium == Declare(<<24>>)

FlagNormal == Declare(<<32>>)

FlagLarge == Declare(<<48>>)

FlagExtraLarge == Declare(<<256>>)

FlagAll == Declare(<<16, 24, 32, 48, 256>>)

\* nth(0, ...): the first positional argument.
ArgOutputPath ==
    /\ pc = "parse"
    /\ output_path_ = ""
    /\ \E p \in OutputPaths : output_path_' = p
    /\ UNCHANGED <<pc, hotspot, show_help, show_version, inputs_,
                   output_sizes_, status_, ctor_status, declared, left, log>>
    /\ UNCHANGED run

FlagVersion ==
    /\ pc = "parse"
    /\ show_version' = TRUE
    /\ UNCHANGED <<pc, hotspot, show_help, inputs_, output_sizes_,
                   output_path_, status_, ctor_status, declared, left, log>>
    /\ UNCHANGED run

OptHelp ==
    /\ pc = "parse"
    /\ show_help' = TRUE
    /\ UNCHANGED <<pc, hotspot, show_version, inputs_, output_sizes_,
                   output_path_, status_, ctor_status, declared, left, log>>
    /\ UNCHANGED run

\* The verbosity parameter (-v) sets the log's verbosity mask and the --help
\* flag sets the processor's verbose mode: neither touches a member of
\* ConcurApp nor the hotspot, so neither has an action here.

\* An argument the processor rejects (unknown option, missing value, a second
\* positional argument): cli::OptionException or cli::ArgumentException.
ArgRejected ==
    /\ pc = "parse"
    /\ ParseCatch("There was a problem parsing the command line arguments.")
    /\ UNCHANGED ctor
    /\ UNCHANGED run

\* proc(argc, argv) returned: the rest of the constructor's try block.
EndParse ==
    /\ pc = "parse"
    /\ pc' = "constructed"
    /\ IF ~show_help /\ ~show_version /\ output_path_ = ""
       THEN /\ show_help' = TRUE
            /\ show_version' = TRUE
            /\ status_' = 1
            /\ ctor_status' = 1
       ELSE /\ UNCHANGED <<show_help, show_version, status_>>
            /\ ctor_status' = status_
    /\ UNCHANGED <<hotspot, inputs_, output_sizes_, output_path_, declared,
                   left, log>>
    /\ UNCHANGED run

----------------------------------------------------------------------------
\* operator()

\* The keys of inputs_ in the map's iteration order.
RECURSIVE InOrder(_, _)
InOrder(paths, m) ==
    IF paths = <<>> THEN <<>>
    ELSE IF Head(paths) \in DOMAIN m
         THEN <<Head(paths)>> \o InOrder(Tail(paths), m)
         ELSE InOrder(Tail(paths), m)

\* Call without the test of status_: only an empty output path returns early.
CallIgnoringStatus ==
    /\ pc = "constructed"
    /\ IF output_path_ = ""
       THEN /\ ret' = status_
            /\ pc' = "done"
            /\ UNCHANGED todo
       ELSE /\ pc' = "inputs"
            /\ todo' = InOrder(InputPaths, inputs_)
            /\ UNCHANGED ret
    /\ UNCHANGED <<status_, log, fs, out_file>>
    /\ UNCHANGED <<ctor, ctor_status>>

\* Entry: the two early returns, else the input loop begins.
Call ==
    /\ pc = "constructed"
    /\ IF status_ # 0 \/ output_path_ = ""
       THEN /\ ret' = status_
            /\ pc' = "done"
            /\ UNCHANGED todo
       ELSE /\ pc' = "inputs"
            /\ todo' = InOrder(InputPaths, inputs_)
            /\ UNCHANGED ret
    /\ UNCHANGED <<status_, log, fs, out_file>>
    /\ UNCHANGED <<ctor, ctor_status>>

\* One iteration of the input loop.
CheckInput ==
    /\ pc = "inputs"
    /\ todo # <<>>
    /\ LET path == Head(todo) IN
       \E k \in Kinds :
          /\ fs' = [fs EXCEPT ![path] = k]
          /\ IF k = "absent"
             THEN /\ status_' = 3
                  /\ log' = log \cup {[msg |-> "Input path does not exist!",
                                       arg |-> path]}
             ELSE IF k = "dir"
             THEN /\ status_' = 3
                  /\ log' = log \cup {[msg |-> "Input path is not a file!",
                                       arg |-> path]}
             ELSE UNCHANGED <<status_, log>>
    /\ todo' = Tail(todo)
    /\ UNCHANGED <<pc, out_file, ret>>
    /\ UNCHANGED <<ctor, ctor_status>>

\* fs::exists or fs::is_regular_file throws on the path being examined: the
\* try block encloses the loop, so the catch ends the loop.
CheckInputThrows ==
    /\ pc = "inputs"
    /\ todo # <<>>
    /\ fs' = [fs EXCEPT ![Head(todo)] = "error"]
    /\ status_' = 4
    /\ log' = log \cup {[msg |-> "Filesystem error while reading inputs!",
                         arg |-> Head(todo)]}
    /\ pc' = "output"
    /\ UNCHANGED <<todo, out_file, ret>>
    /\ UNCHANGED <<ctor, ctor_status>>

InputsDone ==
    /\ pc = "inputs"
    /\ todo = <<>>
    /\ pc' = "output"
    /\ UNCHANGED <<status_, log, todo, fs, out_file, ret>>
    /\ UNCHANGED <<ctor, ctor_status>>

\* The output path exists.
OutputExists ==
    /\ pc = "output"
    /\ \E k \in {"file", "dir"} :
          /\ fs' = [fs EXCEPT ![output_path_] = k]
          /\ IF k = "dir"
             THEN /\ status_' = 5
                  /\ log' = log \cup
                        {[msg |-> "Output path already exists and is not a file!",
                          arg |-> output_path_]}
                  /\ ret' = 5
             ELSE /\ UNCHANGED <<status_, log>>
                  /\ ret' = status_
    /\ pc' = "done"
    /\ UNCHANGED <<todo, out_file>>
    /\ UNCHANGED <<ctor, ctor_status>>

\* The output path does not exist and its parent directory does.
OutputParentExists ==
    /\ pc = "output"
    /\ fs' = [fs EXCEPT ![output_path_] = "absent",
                        ![Parent(output_path_)] = "dir"]
    /\ ret' = status_
    /\ pc' = "done"
    /\ UNCHANGED <<status_, log, todo, out_file>>
    /\ UNCHANGED <<ctor, ctor_status>>

\* Neither exists: fs::create_directories creates the parent.
OutputCreateDirectories ==
    /\ pc = "output"
    /\ fs' = [fs EXCEPT ![output_path_] = "absent",
                        ![Parent(output_path_)] = "created"]
    /\ ret' = status_
    /\ pc' = "done"
    /\ UNCHANGED <<status_, log, todo, out_file>>
    /\ UNCHANGED <<ctor, ctor_status>>

\* fs::absolute, fs::exists, fs::is_regular_file or fs::create_directories
\* throws: every catch block of the output stage sets status_ = 1.
OutputThrows ==
    /\ pc = "output"
    /\ fs' = [fs EXCEPT ![output_path_] = "error"]
    /\ status_' = 1
    /\ log' = log \cup {[msg |-> "Filesystem error while configuring paths!",
                         arg |-> output_path_]}
    /\ ret' = 1
    /\ pc' = "done"
    /\ UNCHANGED <<todo, out_file>>
    /\ UNCHANGED <<ctor, ctor_status>>

Next ==
    \/ OptInput
    \/ OptPng
    \/ OptBmp
    \/ OptHotspotX
    \/ OptHotspotY
    \/ OptSize
    \/ FlagSmall
    \/ FlagMedium
    \/ FlagNormal
    \/ FlagLarge
    \/ FlagExtraLarge
    \/ FlagAll
    \/ ArgOutputPath
    \/ FlagVersion
    \/ OptHelp
    \/ ArgRejected
    \/ EndParse
    \/ Call
    \/ CheckInput
    \/ CheckInputThrows
    \/ InputsDone
    \/ OutputExists
    \/ OutputParentExists
    \/ OutputCreateDirectories
    \/ OutputThrows

Spec == Init /\ [][Next]_vars

\* Command lines made of hotspot options and size declarations only.
InitSizes ==
    /\ pc = "parse"
    /\ hotspot \in [x : IndeterminateF32, y : IndeterminateF32]
    /\ show_help = FALSE
    /\ show_version = FALSE
    /\ inputs_ = <<>>
    /\ output_sizes_ = <<>>
    /\ output_path_ = ""
    /\ status_ = 0
    /\ declared = <<>>
    /\ ctor_status = -1
    /\ left = [decls |-> MaxDecls, hots |-> MaxHotspotOpts,
                total |-> MaxSizeOpts]
    /\ todo = <<>>
    /\ fs = [p \in AllPaths |-> "unknown"]
    /\ log = {}
    /\ out_file = NoFile
    /\ ret = -1

NextSizes ==
    \/ OptHotspotX
    \/ OptHotspotY
    \/ OptSize
    \/ FlagSmall
    \/ FlagMedium
    \/ FlagNormal
    \/ FlagLarge
    \/ FlagExtraLarge
    \/ FlagAll
    \/ ArgRejected
    \/ EndParse

SpecSizes == InitSizes /\ [][NextSizes]_vars

----------------------------------------------------------------------------
\* Properties

H(xn, xd, yn, yd) == [x |-> <<xn, xd>>, y |-> <<yn, yd>>]

Last(seq) == seq[Len(seq)]

\* operator() went past its two early returns.
Ran == ctor_status = 0 /\ output_path_ # ""

\* operator() has not looked at, nor created, any path.
Untouched == \A p \in AllPaths : fs[p] = "unknown"

ParseMessages ==
    {[msg |-> m, arg |-> "command line"] :
        m \in {"Error while parsing command line!",
               "There was a problem parsing the command line arguments."}}

\* C1: the stored output requests hold exactly one entry per declared edge
\* length, and the hotspot stored for an edge length is the one that was
\* current at the last declaration of that edge length.
C1_LastDeclarationWins ==
    /\ DOMAIN output_sizes_ = DOMAIN declared
    /\ \A s \in DOMAIN declared : output_sizes_[s] = Last(declared[s])

\* Edge length 16 was declared twice with different hotspots and the request
\* at 16 carries the later one.
C1_Witness ==
    /\ 16 \in DOMAIN declared
    /\ Len(declared[16]) = 2
    /\ declared[16][1] # declared[16][2]
    /\ output_sizes_[16] = declared[16][2]

\* C2: a size declaration stores the hotspot current at that moment and
\* leaves the current hotspot alone; a hotspot option changes one coordinate
\* of the current hotspot and no stored request.
C2_StickyHotspot ==
    [][ /\ declared' # declared =>
            /\ hotspot' = hotspot
            /\ \A s \in DOMAIN declared' :
                  IF s \in DOMAIN declared /\ declared'[s] = declared[s]
                  THEN output_sizes_'[s] = output_sizes_[s]
                  ELSE output_sizes_'[s] = hotspot
        /\ hotspot' # hotspot =>
            /\ output_sizes_' = output_sizes_
            /\ hotspot'.x = hotspot.x \/ hotspot'.y = hotspot.y
      ]_vars

\* The example of the help text: -xy 2/16 -SM -x 3/32 -N.
C2_Witness ==
    /\ hotspot = H(3, 32, 2, 16)
    /\ left.hots = MaxHotspotOpts - 3
    /\ DOMAIN output_sizes_ = {16, 24, 32}
    /\ \A s \in {16, 24, 32} : Len(declared[s]) = 1
    /\ output_sizes_[16] = H(2, 16, 2, 16)
    /\ output_sizes_[24] = H(2, 16, 2, 16)
    /\ output_sizes_[32] = H(3, 32, 2, 16)

\* C3: while no parse error was raised, every stored output request has an
\* edge length in 1..256 and a hotspot with x and y in [0, 1].
C3_RequestsInRange ==
    status_ # 2 =>
        \A s \in DOMAIN output_sizes_ :
            /\ s >= MinSize /\ s <= MaxSize
            /\ InUnit(output_sizes_[s].x)
            /\ InUnit(output_sizes_[s].y)

\* C4: when parsing succeeded with an output path and a declared input does
\* not exist or is not a regular file, operator() returns 3.
C4_MissingInputReturns3 ==
    (/\ pc = "done"
     /\ Ran
     /\ \E p \in DOMAIN inputs_ : fs[p] \in {"absent", "dir"})
        => ret = 3

\* C5: when the output path exists and is not a regular file, or the output
\* stage raises a filesystem error, operator() returns 5.
C5_OutputFailureReturns5 ==
    (/\ pc = "done"
     /\ Ran
     /\ fs[output_path_] \in {"dir", "error"})
        => ret = 5

\* C6: a run with no input declared or no size declared returns a non-zero
\* status and writes nothing.
C6_NoFramesIsAnError ==
    (/\ pc = "done"
     /\ Ran
     /\ DOMAIN inputs_ = {} \/ DOMAIN output_sizes_ = {})
        => ret # 0 /\ out_file = NoFile

\* C7: a completed run is produced as a cursor when a stored output request
\* carries a non-zero hotspot, and as an icon otherwise.
C7_CursorWhenHotspot ==
    (/\ pc = "done"
     /\ Ran
     /\ ret = 0
     /\ DOMAIN inputs_ # {}
     /\ DOMAIN output_sizes_ # {})
        => out_file.type =
              IF \E s \in DOMAIN output_sizes_ : ~IsZero(output_sizes_[s])
              THEN "cursor" ELSE "icon"

\* C8: in a completed run every requested size either has a frame built from
\* one of the inputs or was reported as unmet by a warning.
C8_FrameOrWarningPerSize ==
    (/\ pc = "done"
     /\ Ran
     /\ ret = 0
     /\ DOMAIN inputs_ # {})
        => \A s \in DOMAIN output_sizes_ :
              \/ \E f \in out_file.frames :
                    f.edge = s /\ f.source \in DOMAIN inputs_
              \/ \E e \in log : e.arg = ToString(s)

\* C9: once the input stage is over every declared input has been examined,
\* and each failing one has a diagnostic of its own.
C9_EveryInputChecked ==
    (pc \in {"output", "done"} /\ Ran)
        => \A p \in DOMAIN inputs_ :
              /\ fs[p] # "unknown"
              /\ fs[p] \in {"absent", "dir", "error"} =>
                    \E e \in log : e.arg = p

\* C10: construction ends with status 2 exactly when parsing raised an
\* exception, with 1 when it did not and no output path was given and neither
\* help nor version was requested, otherwise with 0; and when it ended
\* non-zero or with an empty output path operator() returns that status and
\* touches no path.
C10_EarlyReturn ==
    /\ [](pc # "parse" =>
            /\ ctor_status \in {0, 1, 2}
            /\ ctor_status = 2 <=> log \cap ParseMessages # {})
    /\ [][(pc = "parse" /\ pc' = "constructed" /\ log' = log) =>
            ctor_status' =
               IF ~show_help /\ ~show_version /\ output_path_ = ""
               THEN 1 ELSE 0]_vars
    /\ []((pc = "done" /\ (ctor_status # 0 \/ output_path_ = "")) =>
            /\ ret = ctor_status
            /\ Untouched
            /\ log \subseteq ParseMessages)

\* Parsing failed after an input and the output path were given, and operator()
\* returned 2 without examining them.
C10_Witness ==
    /\ pc = "done"
    /\ ctor_status = 2
    /\ ret = 2
    /\ DOMAIN inputs_ # {}
    /\ output_path_ # ""

====
